---- MODULE Spec2Model ----
(***************************************************************************)
(* cachecache: disk-backed memoization of function calls.                  *)
(*                                                                         *)
(* The model covers Cacher (cachecache.py), its run-time control flags     *)
(* again / cache_results / cache_path, the distributed_cacher wrapper and  *)
(* the probes of utils.py.  Python values are written as strings: "None",  *)
(* "True", "False", the integers "1", "2", "3", and text such as "d1".     *)
(* The joblib Memory the code drives is modelled at the places where the   *)
(* code calls it: a store is the set of items kept under one directory.    *)
(***************************************************************************)
EXTENDS Integers, Sequences, FiniteSets, TLC

VARIABLES
    global_cache_memory,  \* Cacher.global_cache_memory: None or the opened Memory
    stores,               \* directory -> set of items [fn, key, val] on disk
    last,                 \* what the most recent call did and returned
    ncalls,               \* calls made so far
    threads               \* concurrent callers: where each is in cached_func

vars == <<global_cache_memory, stores, last, ncalls, threads>>

(* ------------------------------ bounds -------------------------------- *)

\* calls made in one behaviour
MaxCalls == 2
\* positional arguments of one call
MaxPos == 4
\* control flags passed by keyword in one call
MaxFlags == 2

(* --------------------------- Python values ---------------------------- *)

None == "None"
PyTrue == "True"
PyFalse == "False"

\* the values that are instances of str (or Path)
StrVals == {"d1", "alt", "ro", "full", "low", "nopar/c", "d1/.local_cache", "home"}

\* bool(v)
Truthy(v) == v \notin {None, PyFalse}

EmptyDict == [k \in {} |-> None]

\* dict.get(key, default)
DictGet(d, k, default) == IF k \in DOMAIN d THEN d[k] ELSE default

\* {**a, **b}
DictMerge(a, b) ==
    [k \in DOMAIN a \cup DOMAIN b |-> IF k \in DOMAIN b THEN b[k] ELSE a[k]]

\* d[k] = v
DictSet(d, k, v) == [j \in DOMAIN d \cup {k} |-> IF j = k THEN v ELSE d[j]]

(* ------------------------- wrapped functions -------------------------- *)

ControlNames == {"again", "cache_results", "cache_path"}

P(n, hd, d) == [name |-> n, hasDefault |-> hd, default |-> d]

\* inspect.signature(func): the two functions wrapped in this model,
\*   def f(x, y=2)                                              (pure)
\*   def g(x="d1", again=False, cache_results=True, cache_path=None)
\*                                             (reads data that can change)
Funcs == {"f", "g"}

Sig(fn) ==
    IF fn = "f"
    THEN << P("x", FALSE, None), P("y", TRUE, "2") >>
    ELSE << P("x", TRUE, "d1"), P("again", TRUE, PyFalse),
            P("cache_results", TRUE, PyTrue), P("cache_path", TRUE, None) >>

IsPure(fn) == fn = "f"

\* arg_kwarg_names, as a set
NamesTable == [fn \in Funcs |-> {Sig(fn)[i].name : i \in 1..Len(Sig(fn))}]

Names(fn) == NamesTable[fn]

\* sig.parameters[n]
ParamTable ==
    [fn \in Funcs |->
        [n \in NamesTable[fn] |->
            Sig(fn)[CHOOSE i \in 1..Len(Sig(fn)) : Sig(fn)[i].name = n]]]

ParamOf(fn, n) == ParamTable[fn][n]

\* the position of parameter n, from 1
PositionTable ==
    [fn \in Funcs |->
        [n \in NamesTable[fn] |-> CHOOSE i \in 1..Len(Sig(fn)) : Sig(fn)[i].name = n]]

PositionOf(fn, n) == PositionTable[fn][n]

(* --------------------- make_arg_kwargs_dic (13-58) --------------------- *)

NoErr == "none"

\* wrong_kwargs
WrongKwargs(fn, kwargs) == {n \in DOMAIN kwargs : n \notin Names(fn)}

\* the entries added for the arguments passed positionally:
\* name -> value and name + "_arg_index" -> index
RECURSIVE PositionalEntries(_, _)
PositionalEntries(fn, args) ==
    IF args = <<>> THEN EmptyDict
    ELSE LET i == Len(args)
             name == Sig(fn)[i].name
         IN  DictSet(DictSet(PositionalEntries(fn, SubSeq(args, 1, i - 1)),
                             name, args[i]),
                     name \o "_arg_index", ToString(i - 1))

\* parameters that were not passed are left out of the mapping
DefaultEntries_None(fn, dic) == EmptyDict

\* the parameters not passed that declare a default
DefaultEntries(fn, dic) ==
    LET missing == {n \in Names(fn) : n \notin DOMAIN dic /\ ParamOf(fn, n).hasDefault}
    IN  [n \in missing |-> ParamOf(fn, n).default]

make_arg_kwargs_dic(fn, args, kwargs) ==
    IF WrongKwargs(fn, kwargs) # {}
    THEN [err |-> "AssertionError", dic |-> EmptyDict]
    ELSE IF Len(args) > Len(Sig(fn))
    THEN [err |-> "IndexError", dic |-> EmptyDict]
    ELSE LET passed == DictMerge(PositionalEntries(fn, args), kwargs)
         IN  [err |-> NoErr, dic |-> DictMerge(DefaultEntries(fn, passed), passed)]

(* ----------------------------- utils.py ------------------------------- *)

\* The filesystem the probes look at.  It is fixed: a directory the cache
\* creates lies on the same disk and under the same permissions as its parent.
Parent(p) ==
    CASE p = "home" -> "~"
      [] p = "alt" -> "."
      [] p = "ro" -> "rodir"
      [] p = "full" -> "fulldisk"
      [] p = "low" -> "lowdisk"
      [] p = "nopar/c" -> "nopar"
      [] p = "d1/.local_cache" -> "d1"
      [] OTHER -> "/"

\* Path.exists()
PathExists(p) ==
    p \in {"/", "~", ".", "rodir", "fulldisk", "lowdisk", "d1", "home", "full"}

\* os.access(p, os.W_OK)
Access(p) == p # "rodir"

\* disk_usage(p).free, in bytes
DiskFree(p) ==
    IF p \in {"full", "fulldisk"} THEN 5000000
    ELSE IF p \in {"low", "lowdisk"} THEN 500000000
    ELSE 2000000000

BytesPerMb == 1024 * 1024

has_write_permission(p) ==
    IF PathExists(p) THEN Access(p)
    ELSE IF PathExists(Parent(p)) THEN Access(Parent(p))
    ELSE FALSE

\* free / (1024 * 1024) >= required_space_mb
has_space_left(p, required_space_mb) ==
    IF PathExists(p) THEN DiskFree(p) >= required_space_mb * BytesPerMb
    ELSE IF PathExists(Parent(p)) THEN DiskFree(Parent(p)) >= required_space_mb * BytesPerMb
    ELSE FALSE

is_writable(p, required_space_mb) ==
    has_space_left(p, required_space_mb) /\ has_write_permission(p)

(* ------------------- Cacher.instanciate_joblib_cache ------------------ *)

\* the directories a Memory can be opened at
StoreDirs == {"home", "alt", "low", "d1/.local_cache"}

\* the size on disk of one stored item, in bytes
ItemBytes(it) == 1000

RECURSIVE SumBytes(_)
SumBytes(items) ==
    IF items = {} THEN 0
    ELSE LET it == CHOOSE i \in items : TRUE
         IN  ItemBytes(it) + SumBytes(items \ {it})

\* Memory.reduce_size(bytes_limit): items are deleted, least recently
\* accessed first, until the bytes deleted reach size - bytes_limit.  The
\* access times are the disk's, so every order is possible: the result is
\* the set of item sets that can be left.
RECURSIVE DeleteUntil(_, _)
DeleteUntil(items, to_delete_size) ==
    IF to_delete_size <= 0 \/ items = {} THEN {items}
    ELSE UNION {DeleteUntil(items \ {it}, to_delete_size - ItemBytes(it)) : it \in items}

reduce_size(items, bytes_limit) == DeleteUntil(items, SumBytes(items) - bytes_limit)

MemNone == [usable |-> FALSE, location |-> None, caching_memory_allocation |-> 0]

\* caching_memory_allocation = None
AllocNone == [given |-> FALSE, bytes |-> 0]

ReservedBytes == 1000000000
RequiredSpaceMb == 10

\* the probe runs before the parent directory is looked at
instanciate_joblib_cache_ProbeFirst(st, path, alloc) ==
    IF ~is_writable(path, RequiredSpaceMb)
    THEN {[err |-> NoErr, mem |-> MemNone, stores |-> st]}
    ELSE IF ~PathExists(Parent(path))
    THEN {[err |-> "ValueError", mem |-> MemNone, stores |-> st]}
    ELSE {[err |-> NoErr,
           mem |-> [usable |-> TRUE, location |-> path,
                    caching_memory_allocation |->
                        IF alloc.given THEN alloc.bytes
                        ELSE DiskFree(path) - ReservedBytes],
           stores |-> st]}

\* the outcomes of opening a store at path: the error raised (if any), the
\* Memory returned (MemNone for None) and the stores afterwards
instanciate_joblib_cache(st, path, alloc) ==
    IF ~PathExists(Parent(path))
    THEN {[err |-> "ValueError", mem |-> MemNone, stores |-> st]}
    ELSE IF ~is_writable(path, RequiredSpaceMb)
    THEN {[err |-> NoErr, mem |-> MemNone, stores |-> st]}
    ELSE LET limit == IF alloc.given THEN alloc.bytes
                      ELSE DiskFree(path) - ReservedBytes
         IN  {[err |-> NoErr,
               mem |-> [usable |-> TRUE, location |-> path,
                        caching_memory_allocation |-> limit],
               stores |-> [st EXCEPT ![path] = kept]] :
                 kept \in reduce_size(st[path], limit)}

(* ------------------ calling the wrapped function ---------------------- *)

\* Python's binding of func(*args, **kwargs): the parameters' values, or the
\* TypeError raised before the body runs
PyBind(fn, args, kwargs) ==
    LET sig == Sig(fn)
        given(i) == i <= Len(args) \/ sig[i].name \in DOMAIN kwargs
    IN  IF \/ Len(args) > Len(sig)
           \/ \E k \in DOMAIN kwargs : k \notin Names(fn)
           \/ \E i \in 1..Len(sig) : i <= Len(args) /\ sig[i].name \in DOMAIN kwargs
           \/ \E i \in 1..Len(sig) : ~given(i) /\ ~sig[i].hasDefault
        THEN [err |-> "TypeError", dic |-> EmptyDict]
        ELSE [err |-> NoErr,
              dic |-> [n \in Names(fn) |->
                         LET i == PositionOf(fn, n)
                         IN  IF i <= Len(args) THEN args[i]
                             ELSE IF n \in DOMAIN kwargs THEN kwargs[n]
                             ELSE sig[i].default]]

\* what the data a function reads can make it return
DataValues == {"v1", "v2"}

\* the body of the wrapped function on bound arguments: f computes from its
\* arguments alone; g returns what it reads, or raises
Body(fn, bound) ==
    IF IsPure(fn)
    THEN {[kind |-> "value", val |-> bound["x"] \o "+" \o bound["y"]]}
    ELSE {[kind |-> "value", val |-> v] : v \in DataValues}
         \cup {[kind |-> "Raised", val |-> None]}

\* func_to_cache(*args, **kwargs): the outcomes, and whether the body ran
Invoke(fn, args, kwargs) ==
    LET b == PyBind(fn, args, kwargs)
    IN  IF b.err # NoErr
        THEN {[kind |-> "TypeError", val |-> None, ran |-> 0]}
        ELSE {[kind |-> o.kind, val |-> o.val, ran |-> 1] : o \in Body(fn, b.dic)}

(* ------------------------- joblib MemorizedFunc ----------------------- *)

\* the key is taken from the mapping of make_arg_kwargs_dic, which records
\* the position of every argument passed positionally
filter_args_WithPositions(fn, ignore, args, kwargs) ==
    LET m == make_arg_kwargs_dic(fn, args, kwargs)
    IN  IF m.err # NoErr THEN [err |-> "ValueError", dic |-> EmptyDict]
        ELSE [err |-> NoErr, dic |-> [n \in DOMAIN m.dic \ ignore |-> m.dic[n]]]

\* joblib's filter_args: the mapping that is hashed into the key of an item
filter_args(fn, ignore, args, kwargs) ==
    LET sig == Sig(fn)
        missing(i) == i > Len(args) /\ sig[i].name \notin DOMAIN kwargs
                      /\ ~sig[i].hasDefault
        byPosition(n) ==
            LET i == PositionOf(fn, n)
            IN  IF i <= Len(args) THEN args[i]
                ELSE IF n \in DOMAIN kwargs THEN kwargs[n]
                ELSE sig[i].default
    IN  IF \E i \in 1..Len(sig) : missing(i)
        THEN [err |-> "ValueError", dic |-> EmptyDict]
        ELSE IF \E k \in DOMAIN kwargs : k \notin Names(fn)
        THEN [err |-> "TypeError", dic |-> EmptyDict]
        ELSE IF \E k \in ignore : k \notin Names(fn)
        THEN [err |-> "ValueError", dic |-> EmptyDict]
        ELSE [err |-> NoErr,
              dic |-> [n \in Names(fn) \ ignore |->
                         IF n \in DOMAIN kwargs THEN kwargs[n] ELSE byPosition(n)]]

HasItem(items, fn, key) == \E it \in items : it.fn = fn /\ it.key = key

ItemOf(items, fn, key) == CHOOSE it \in items : it.fn = fn /\ it.key = key

\* MemorizedResult.clear()
ClearItem(items, fn, key) == {it \in items : ~(it.fn = fn /\ it.key = key)}

\* MemorizedFunc.call_and_shelve(*args, **kwargs) on the items of one store:
\* the error raised (if any), the items afterwards, whether the key was
\* looked up and found, how often the body ran and the value it computed
call_and_shelve(items, fn, ignore, args, kwargs) ==
    LET fa == filter_args(fn, ignore, args, kwargs)
    IN  IF fa.err # NoErr
        THEN {[err |-> fa.err, items |-> items, execs |-> 0, looked |-> FALSE,
               hit |-> FALSE, key |-> fa.dic, val |-> None]}
        ELSE IF HasItem(items, fn, fa.dic)
        THEN {[err |-> NoErr, items |-> items, execs |-> 0, looked |-> TRUE,
               hit |-> TRUE, key |-> fa.dic, val |-> None]}
        ELSE {[err |-> IF o.kind = "value" THEN NoErr ELSE o.kind,
               items |-> IF o.kind = "value"
                         THEN items \cup {[fn |-> fn, key |-> fa.dic, val |-> o.val]}
                         ELSE items,
               execs |-> o.ran, looked |-> TRUE, hit |-> FALSE, key |-> fa.dic,
               val |-> o.val] :
                 o \in Invoke(fn, args, kwargs)}

(* ------------------- Cacher._decorator.cached_func -------------------- *)

\* what one call did: the stores afterwards, "returned" or the exception
\* raised, the value returned, how often the body of the wrapped function
\* ran and the value its last run computed, the Memory used (MemNone when
\* none), the paths opened, and the first lookup: made, found, its key
Result(st, outcome, result, execs, computed, mem, opened, looked, hit, key) ==
    [stores |-> st, outcome |-> outcome, result |-> result, execs |-> execs,
     computed |-> computed, mem |-> mem, opened |-> opened, looked |-> looked,
     hit |-> hit, key |-> key]

\* return func_to_cache(*args, **kwargs)
Unaltered(st, fn, args, kwargs, opened) ==
    {Result(st, IF o.kind = "value" THEN "returned" ELSE o.kind, o.val, o.ran,
            o.val, MemNone, opened, FALSE, FALSE, EmptyDict) :
        o \in Invoke(fn, args, kwargs)}

\* what is written through a Memory reaches every directory
StoreAt_AllStores(st, loc, items) == [d \in DOMAIN st |-> items]

\* Memory(path): the items read and written are those under its location
StoreAt(st, loc, items) == [st EXCEPT ![loc] = items]

\* only again is left out of the key
arguments_to_ignore_AgainOnly(arg_kwargs) ==
    {k \in {"again"} : k \in DOMAIN arg_kwargs}

\* lines 213-215: the control names the mapping holds
arguments_to_ignore(arg_kwargs) ==
    {k \in ControlNames : k \in DOMAIN arg_kwargs}

\* lines 210-231: fingerprint, reload or recompute; clear says whether the
\* item is cleared between the two call_and_shelve
Shelve(mem, st, fn, args, kwargs, opened, clear) ==
    LET arg_kwargs == make_arg_kwargs_dic(fn, args, kwargs)
        ignore == arguments_to_ignore(arg_kwargs.dic)
        loc == mem.location
        With(items) == StoreAt(st, loc, items)
    IN  IF arg_kwargs.err # NoErr
        THEN {Result(st, arg_kwargs.err, None, 0, None, mem, opened, FALSE, FALSE,
                     EmptyDict)}
        ELSE UNION {
            IF a.err # NoErr
            THEN {Result(With(a.items), a.err, None, a.execs, a.val, mem, opened,
                         a.looked, a.hit, a.key)}
            ELSE LET cleared == IF clear THEN ClearItem(a.items, fn, a.key)
                                ELSE a.items
                 IN  {IF b.err # NoErr
                      THEN Result(With(b.items), b.err, None, a.execs + b.execs,
                                  IF b.execs > 0 THEN b.val ELSE a.val, mem, opened,
                                  a.looked, a.hit, a.key)
                      ELSE Result(With(b.items), "returned",
                                  ItemOf(b.items, fn, b.key).val, a.execs + b.execs,
                                  IF b.execs > 0 THEN b.val ELSE a.val, mem, opened,
                                  a.looked, a.hit, a.key) :
                        b \in call_and_shelve(cleared, fn, ignore, args, kwargs)} :
            a \in call_and_shelve(st[loc], fn, ignore, args, kwargs)}

\* the item is cleared whatever again says
Memoized_AlwaysClears(mem, st, fn, args, kwargs, opened) ==
    Shelve(mem, st, fn, args, kwargs, opened, TRUE)

\* if again: mem.clear()
Memoized(mem, st, fn, args, kwargs, opened) ==
    Shelve(mem, st, fn, args, kwargs, opened,
           Truthy(DictGet(kwargs, "again", PyFalse)))

\* the default store is opened again by every call that uses it
DefaultMemory_Reopened(gm, st) ==
    IF ~gm.usable THEN {[mem |-> gm, stores |-> st, opened |-> <<>>]}
    ELSE {[mem |-> op.mem, stores |-> op.stores, opened |-> <<gm.location>>] :
            op \in instanciate_joblib_cache(st, gm.location, AllocNone)}

\* cache_memory = self.global_cache_memory: the Memory opened by __init__
DefaultMemory(gm, st) == {[mem |-> gm, stores |-> st, opened |-> <<>>]}

cached_func(gm, st, fn, args, kwargs) ==
    LET cache_results == DictGet(kwargs, "cache_results", PyTrue)
        cache_path == DictGet(kwargs, "cache_path", None)
    IN  IF ~Truthy(cache_results)
        THEN Unaltered(st, fn, args, kwargs, <<>>)
        ELSE IF cache_path = None
        THEN UNION {
            IF ~d.mem.usable
            THEN Unaltered(d.stores, fn, args, kwargs, d.opened)
            ELSE Memoized(d.mem, d.stores, fn, args, kwargs, d.opened) :
            d \in DefaultMemory(gm, st)}
        ELSE UNION {
            IF op.err # NoErr
            THEN {Result(op.stores, op.err, None, 0, None, MemNone, <<cache_path>>,
                         FALSE, FALSE, EmptyDict)}
            ELSE IF ~op.mem.usable
            THEN Unaltered(op.stores, fn, args, kwargs, <<cache_path>>)
            ELSE Memoized(op.mem, op.stores, fn, args, kwargs, <<cache_path>>) :
            op \in instanciate_joblib_cache(st, cache_path, AllocNone)}

(* ------------- distributed_cacher ... locally_cached_func ------------- *)

\* the arguments of @distributed_cacher
datapath_arg_name == "x"
local_cache_path == ".local_cache"

\* Path(datapath) / local_cache_path
PathJoin(datapath, sub) == datapath \o "/" \o sub

\* the routed path replaces a cache_path the caller gave
RoutedKwargs_Overrides(arg_kwargs, kwargs) ==
    IF datapath_arg_name \in DOMAIN arg_kwargs
       /\ arg_kwargs[datapath_arg_name] \in StrVals
    THEN DictSet(kwargs, "cache_path",
                 PathJoin(arg_kwargs[datapath_arg_name], local_cache_path))
    ELSE kwargs

\* lines 351-364: the keyword arguments handed on to cached_func
RoutedKwargs(arg_kwargs, kwargs) ==
    IF datapath_arg_name \in DOMAIN arg_kwargs
       /\ arg_kwargs[datapath_arg_name] \in StrVals
    THEN LET new_cache_path == PathJoin(arg_kwargs[datapath_arg_name], local_cache_path)
         IN  IF "cache_path" \in DOMAIN kwargs
             THEN IF kwargs["cache_path"] = None
                  THEN DictSet(kwargs, "cache_path", new_cache_path)
                  ELSE kwargs
             ELSE DictSet(kwargs, "cache_path", new_cache_path)
    ELSE kwargs

\* kwargs as locally_cached_func leaves them
HandedOn(fn, args, kwargs) ==
    LET arg_kwargs == make_arg_kwargs_dic(fn, args, kwargs)
    IN  IF arg_kwargs.err # NoErr THEN kwargs
        ELSE RoutedKwargs(arg_kwargs.dic, kwargs)

locally_cached_func(gm, st, fn, args, kwargs) ==
    LET arg_kwargs == make_arg_kwargs_dic(fn, args, kwargs)
    IN  IF arg_kwargs.err # NoErr
        THEN {Result(st, arg_kwargs.err, None, 0, None, MemNone, <<>>, FALSE, FALSE,
                     EmptyDict)}
        ELSE cached_func(gm, st, fn, args, RoutedKwargs(arg_kwargs.dic, kwargs))

(* ------------------------------ inputs -------------------------------- *)

\* the values a call passes for each parameter name
Dom(n) ==
    CASE n = "x" -> {"1", "d1"}
      [] n = "y" -> {"2", "3"}
      [] n = "again" -> {PyTrue, PyFalse}
      [] n = "cache_results" -> {PyTrue, PyFalse}
      [] n = "cache_path" -> {None, "home", "alt", "ro", "low", "nopar/c"}
      [] n = "z" -> {"9"}

AllNames == {"x", "y", "z"} \cup ControlNames

AllVals == UNION {Dom(n) : n \in AllNames}

\* the values a call passes positionally for each parameter name
PosDom(n) == IF n = "cache_path" THEN {None, "alt"} ELSE Dom(n)

PosArgs(fn, n) ==
    {a \in [1..n -> AllVals] : \A i \in 1..n : a[i] \in PosDom(Sig(fn)[i].name)}

KwOver(names) ==
    UNION {{k \in [D -> AllVals] : \A n \in D : k[n] \in Dom(n)} : D \in SUBSET names}

Min(a, b) == IF a < b THEN a ELSE b

\* every way of passing arguments positionally and by keyword, without flags
FormCalls(fn) ==
    UNION {UNION {{[fn |-> fn, args |-> a, kwargs |-> k] :
                     k \in KwOver({Sig(fn)[i].name : i \in (n+1)..Len(Sig(fn))}
                                  \ ControlNames)} :
                  a \in PosArgs(fn, n)} :
           n \in 0..Min(MaxPos, Len(Sig(fn)))}

\* the control flags passed by keyword, after one positional argument
FlagCalls(fn) ==
    {[fn |-> fn, args |-> a, kwargs |-> k] :
        a \in PosArgs(fn, 1),
        k \in {j \in KwOver(ControlNames) :
                 Cardinality(DOMAIN j) \in 1..MaxFlags}}

\* a keyword no function declares, alone or with one control flag
StrayCalls(fn) ==
    {[fn |-> fn, args |-> a, kwargs |-> DictSet(k, "z", "9")] :
        a \in PosArgs(fn, 1),
        k \in {j \in KwOver(ControlNames) : Cardinality(DOMAIN j) <= 1}}

Calls == UNION {FormCalls(fn) \cup FlagCalls(fn) \cup StrayCalls(fn) : fn \in Funcs}

\* Cacher(cache_path, caching_memory_allocation) as constructed
CacherArgs ==
    {[path |-> "home", alloc |-> [given |-> TRUE, bytes |-> 1500]],
     [path |-> "full", alloc |-> AllocNone]}

(* ------------------------- the state machine -------------------------- *)

\* the callers of the concurrent specification
Threads == {"t1", "t2"}

Idle ==
    [pc |-> "idle", round |-> 0, held |-> None, outcome |-> "none",
     result |-> None, execs |-> 0]

NoThreads == [t \in Threads |-> Idle]

NoStores == [d \in StoreDirs |-> {}]

\* what a call keeps of the call before it, when that call looked up the same
\* key of the same function in the store at the same location (sameloc), and
\* through a Memory with the same byte limit (related)
NoPrev ==
    [related |-> FALSE, sameloc |-> FALSE, again |-> FALSE, outcome |-> "none",
     result |-> None,
     execs |-> 0, hit |-> FALSE]

NoCall ==
    [w |-> "none", fn |-> "f", args |-> <<>>, kwargs |-> EmptyDict,
     ckwargs |-> EmptyDict, before |-> NoStores, repeat |-> FALSE,
     explicit |-> FALSE, prev |-> NoPrev,
     r |-> Result(NoStores, "none", None, 0, None, MemNone, <<>>, FALSE, FALSE,
                  EmptyDict)]

\* Cacher.__init__ (141-149)
Init ==
    \E c \in CacherArgs :
        \E op \in instanciate_joblib_cache(NoStores, c.path, c.alloc) :
            /\ op.err = NoErr
            /\ global_cache_memory = op.mem
            /\ stores = op.stores
            /\ last = NoCall
            /\ ncalls = 0
            /\ threads = NoThreads

\* the call (args2, kwargs2) is the call (args1, kwargs1) with parameters the
\* first left to their defaults passed by keyword, with the default as value
DefaultsGiven(fn, args1, kwargs1, args2, kwargs2) ==
    /\ args2 = args1
    /\ DOMAIN kwargs1 \subseteq DOMAIN kwargs2
    /\ DOMAIN kwargs1 # DOMAIN kwargs2
    /\ \A n \in DOMAIN kwargs1 : kwargs2[n] = kwargs1[n]
    /\ \A n \in DOMAIN kwargs2 \ DOMAIN kwargs1 :
          /\ n \in Names(fn)
          /\ PositionOf(fn, n) > Len(args1)
          /\ ParamOf(fn, n).hasDefault
          /\ kwargs2[n] = ParamOf(fn, n).default

\* the call (w, c), handed on to cached_func with keyword arguments ck, did r
Done(w, c, ck, r) ==
    /\ stores' = r.stores
    /\ last' = [w |-> w, fn |-> c.fn, args |-> c.args, kwargs |-> c.kwargs,
                ckwargs |-> ck, before |-> stores,
                repeat |-> (last.w = w /\ last.fn = c.fn /\ last.args = c.args
                            /\ last.kwargs = c.kwargs),
                explicit |-> (last.w = w /\ last.fn = c.fn
                              /\ DefaultsGiven(c.fn, last.args, last.kwargs,
                                               c.args, c.kwargs)),
                prev |-> IF /\ last.r.looked /\ r.looked /\ last.fn = c.fn
                            /\ last.r.mem.location = r.mem.location
                            /\ last.r.key = r.key
                         THEN [related |-> last.r.mem = r.mem, sameloc |-> TRUE,
                               again |-> Truthy(DictGet(last.ckwargs, "again", PyFalse)),
                               outcome |-> last.r.outcome, result |-> last.r.result,
                               execs |-> last.r.execs, hit |-> last.r.hit]
                         ELSE NoPrev,
                r |-> r]
    /\ ncalls' = ncalls + 1
    /\ UNCHANGED <<global_cache_memory, threads>>

\* a call of a function decorated with the Cacher
Call ==
    /\ ncalls < MaxCalls
    /\ \E c \in Calls :
         \E r \in cached_func(global_cache_memory, stores, c.fn, c.args, c.kwargs) :
            Done("cacher", c, c.kwargs, r)

\* a call of a function decorated with @distributed_cacher(global_cache=cacher)
DCall ==
    /\ ncalls < MaxCalls
    /\ \E c \in Calls :
         \E r \in locally_cached_func(global_cache_memory, stores, c.fn, c.args,
                                      c.kwargs) :
            Done("distributed", c, HandedOn(c.fn, c.args, c.kwargs), r)

Next == Call \/ DCall

Spec == Init /\ [][Next]_vars

(* ------------------------- concurrent callers ------------------------- *)

\* Two callers run cached_func on the default store at the same time, both
\* for g(1): t1 with default flags, t2 with again=True.  Each step is one
\* access to the store or one run of the function; the steps of the two
\* callers interleave in every order.
ConcFn == "g"
ConcArgs == <<"1">>
ConcKwargs(t) == IF t = "t1" THEN EmptyDict ELSE DictSet(EmptyDict, "again", PyTrue)

\* the key both callers look up
ConcKey(t) ==
    filter_args(ConcFn,
                arguments_to_ignore(
                    make_arg_kwargs_dic(ConcFn, ConcArgs, ConcKwargs(t)).dic),
                ConcArgs, ConcKwargs(t)).dic

ConcItems == stores[global_cache_memory.location]

SetThread(t, rec) == threads' = [threads EXCEPT ![t] = rec]

\* where a caller goes once call_and_shelve has its MemorizedResult
AfterShelve(t) == IF threads[t].round = 1 THEN "clear" ELSE "get"

\* call_and_shelve (221, 228): is an item stored for the key?
Lookup(t) ==
    /\ threads[t].pc = "shelve"
    /\ SetThread(t, [threads[t] EXCEPT
                        !.pc = IF HasItem(ConcItems, ConcFn, ConcKey(t))
                               THEN AfterShelve(t) ELSE "compute"])
    /\ UNCHANGED <<global_cache_memory, stores, last, ncalls>>

\* call_and_shelve on a miss: the function runs
Compute(t) ==
    /\ threads[t].pc = "compute"
    /\ \E o \in Invoke(ConcFn, ConcArgs, ConcKwargs(t)) :
          SetThread(t, IF o.kind = "value"
                       THEN [threads[t] EXCEPT !.pc = "store", !.held = o.val,
                                               !.execs = @ + o.ran]
                       ELSE [threads[t] EXCEPT !.pc = "done", !.outcome = o.kind,
                                               !.execs = @ + o.ran])
    /\ UNCHANGED <<global_cache_memory, stores, last, ncalls>>

\* call_and_shelve on a miss: the value computed is stored under the key
Store(t) ==
    /\ threads[t].pc = "store"
    /\ stores' = StoreAt(stores, global_cache_memory.location,
                         ClearItem(ConcItems, ConcFn, ConcKey(t))
                             \cup {[fn |-> ConcFn, key |-> ConcKey(t),
                                    val |-> threads[t].held]})
    /\ SetThread(t, [threads[t] EXCEPT !.pc = AfterShelve(t)])
    /\ UNCHANGED <<global_cache_memory, last, ncalls>>

\* if again: mem.clear() (224-225)
Clear(t) ==
    /\ threads[t].pc = "clear"
    /\ stores' = IF Truthy(DictGet(ConcKwargs(t), "again", PyFalse))
                 THEN StoreAt(stores, global_cache_memory.location,
                              ClearItem(ConcItems, ConcFn, ConcKey(t)))
                 ELSE stores
    /\ SetThread(t, [threads[t] EXCEPT !.pc = "shelve", !.round = 2])
    /\ UNCHANGED <<global_cache_memory, last, ncalls>>

\* results = mem.get() (229): the item is loaded, or is no longer there
Get(t) ==
    /\ threads[t].pc = "get"
    /\ SetThread(t, IF HasItem(ConcItems, ConcFn, ConcKey(t))
                    THEN [threads[t] EXCEPT
                            !.pc = "done", !.outcome = "returned",
                            !.result = ItemOf(ConcItems, ConcFn, ConcKey(t)).val]
                    ELSE [threads[t] EXCEPT !.pc = "done", !.outcome = "KeyError"])
    /\ UNCHANGED <<global_cache_memory, stores, last, ncalls>>

\* a usable default store, empty or holding an item for the key, and both
\* callers about to make their first call_and_shelve
InitC ==
    /\ \E c \in CacherArgs :
          \E op \in instanciate_joblib_cache(NoStores, c.path, c.alloc) :
             /\ op.err = NoErr /\ op.mem.usable
             /\ global_cache_memory = op.mem
             /\ \E held \in {{}} \cup {{[fn |-> ConcFn, key |-> ConcKey("t1"),
                                          val |-> v]} : v \in DataValues} :
                   stores = StoreAt(op.stores, op.mem.location, held)
    /\ last = NoCall
    /\ ncalls = 0
    /\ threads = [t \in Threads |-> [Idle EXCEPT !.pc = "shelve", !.round = 1]]

NextC ==
    \E t \in Threads : Lookup(t) \/ Compute(t) \/ Store(t) \/ Clear(t) \/ Get(t)

SpecC == InitC /\ [][NextC]_vars

(* ------------------------- the call just made ------------------------- *)

Called == last.w # "none"

\* the control flags cached_func pulled from its keyword arguments
AgainFlag == Truthy(DictGet(last.ckwargs, "again", PyFalse))
CachingFlag == Truthy(DictGet(last.ckwargs, "cache_results", PyTrue))
PathFlag == DictGet(last.ckwargs, "cache_path", None)

\* no control flag was passed by the caller
NoFlags == DOMAIN last.kwargs \cap ControlNames = {}

\* the caller's keyword arguments without the control flags the function
\* does not declare
Stripped(fn, kwargs) ==
    [k \in {n \in DOMAIN kwargs : n \notin ControlNames \/ n \in Names(fn)} |-> kwargs[k]]

\* the arguments, control flags aside, are arguments the function accepts
ValidCall == PyBind(last.fn, last.args, Stripped(last.fn, last.kwargs)).err = NoErr

\* the items of the store the call used
UsedItems == stores[last.r.mem.location]

\* the call got as far as cached_func
ReachedCacher ==
    last.w = "distributed" =>
        make_arg_kwargs_dic(last.fn, last.args, last.kwargs).err = NoErr

\* a call that asks for caching
CachingCall == Called /\ CachingFlag /\ ReachedCacher

\* the path of a call resolves to a store that cannot be used
UnusablePath ==
    IF PathFlag = None THEN ~global_cache_memory.usable
    ELSE PathExists(Parent(PathFlag)) /\ ~is_writable(PathFlag, RequiredSpaceMb)

(* ------------------------------- claims ------------------------------- *)

\* C1: for a pure function and a usable default store, the second of two
\* consecutive calls with identical arguments and no control flag returns the
\* result of the first without running the function, and the function ran
\* once across both when the first call found nothing stored.
C1_Idempotence ==
    (/\ last.w = "cacher" /\ last.repeat /\ IsPure(last.fn) /\ NoFlags
     /\ ValidCall /\ global_cache_memory.usable)
    => /\ last.prev.related
       /\ last.prev.outcome = "returned"
       /\ last.r.outcome = "returned"
       /\ last.r.result = last.prev.result
       /\ last.r.hit
       /\ last.r.execs = 0
       /\ last.prev.execs = (IF last.prev.hit THEN 0 ELSE 1)

C1_Witness ==
    /\ last.w = "cacher" /\ last.repeat /\ IsPure(last.fn) /\ NoFlags
    /\ ValidCall /\ global_cache_memory.usable
    /\ ~last.prev.hit /\ last.prev.execs = 1
    /\ last.r.hit /\ last.r.execs = 0 /\ last.r.outcome = "returned"

\* C2: a caching call with again=True on the default store runs the function
\* even when an item is stored, and when it returns the store holds the value
\* computed by that run; the next call for the same key without again
\* returns that value without running the function.
C2_ForceRecompute ==
    /\ (/\ CachingCall /\ AgainFlag /\ PathFlag = None /\ ValidCall
        /\ global_cache_memory.usable)
       => /\ last.r.execs >= 1
          /\ last.r.outcome = "returned" =>
                /\ HasItem(UsedItems, last.fn, last.r.key)
                /\ ItemOf(UsedItems, last.fn, last.r.key).val = last.r.computed
                /\ last.r.result = last.r.computed
    /\ (/\ CachingCall /\ ~AgainFlag /\ PathFlag = None /\ ValidCall
        /\ last.prev.related /\ last.prev.again /\ last.prev.outcome = "returned")
       => /\ last.r.outcome = "returned"
          /\ last.r.execs = 0
          /\ last.r.result = last.prev.result

\* C3: a call with cache_results=False opens no store, leaves the items of
\* every store as they were, and runs the function once.
C3_Bypass ==
    (Called /\ ~Truthy(DictGet(last.kwargs, "cache_results", PyTrue)) /\ ValidCall)
    => /\ stores = last.before
       /\ last.r.opened = <<>>
       /\ ~last.r.looked
       /\ last.r.execs = 1
       /\ last.r.outcome \in {"returned", "Raised"}

\* C4: for a function that declares none of the control names, a call that
\* passes control flags succeeds, and no store holds two items for the same
\* function and arguments.
C4_FlagExclusion ==
    /\ (/\ Called /\ ValidCall /\ ~NoFlags
        /\ Names(last.fn) \cap ControlNames = {}
        /\ (PathFlag # None => PathExists(Parent(PathFlag))))
       => last.r.outcome = "returned"
    /\ \A d \in StoreDirs : \A i1, i2 \in stores[d] :
          (/\ i1.fn = i2.fn /\ Names(i1.fn) \cap ControlNames = {}
           /\ \A n \in Names(i1.fn) : i1.key[n] = i2.key[n])
          => i1 = i2

\* the calls that bind the arguments of f as the last call did, flags aside
SameBinding ==
    {c \in FormCalls(last.fn) :
        /\ PyBind(c.fn, c.args, c.kwargs).err = NoErr
        /\ PyBind(c.fn, c.args, c.kwargs).dic = PyBind(last.fn, last.args, last.kwargs).dic}

\* a call f(x, y) through the Cacher with no control flag, on a usable store
PlainCallOfF ==
    /\ last.w = "cacher" /\ last.fn = "f" /\ NoFlags /\ ValidCall
    /\ global_cache_memory.usable

\* C5 (as amended): however x and y are passed, positionally or by keyword,
\* the key of the item is the binding of the parameters, so the call is a
\* hit exactly when an item for that binding is stored, and then does not
\* run the function.
C5_OrderIndependence ==
    PlainCallOfF
    => /\ last.r.looked
       /\ last.r.key = PyBind(last.fn, last.args, last.kwargs).dic
       /\ \A c \in SameBinding :
             filter_args(c.fn, {}, c.args, c.kwargs).dic = last.r.key
       /\ last.r.hit = HasItem(last.before[global_cache_memory.location], "f", last.r.key)
       /\ last.r.hit => (last.r.execs = 0 /\ last.r.outcome = "returned")
       /\ (last.prev.related /\ last.prev.outcome = "returned")
             => (last.r.hit /\ last.r.result = last.prev.result)

\* C5 as claimed: besides, make_arg_kwargs_dic builds the same mapping for
\* every such way of passing the arguments.
C5_SameMapping ==
    C5_OrderIndependence
    /\ (PlainCallOfF
        => \A c \in SameBinding :
              make_arg_kwargs_dic(c.fn, c.args, c.kwargs).dic
                  = make_arg_kwargs_dic(last.fn, last.args, last.kwargs).dic)

\* f(x=.., y=..) is served from the item another form of the call stored
C5_Witness ==
    /\ PlainCallOfF /\ DOMAIN last.kwargs = {"x", "y"}
    /\ last.prev.related /\ ~last.repeat
    /\ last.r.hit /\ last.r.execs = 0 /\ last.r.outcome = "returned"

\* C6: after a caching call that returns, the items of the store it used
\* take no more bytes than the limit of the store.
C6_EvictionBound ==
    (CachingCall /\ last.r.mem.usable /\ last.r.outcome = "returned")
    => SumBytes(UsedItems) <= last.r.mem.caching_memory_allocation

\* C7: opening a store at a path that is not writable or is short of space
\* returns None without raising; a caching call that resolves to such a
\* store runs the function once, and no store changes.
C7_UnusableDegrade ==
    /\ \A p \in {"ro", "full"} :
          \A op \in instanciate_joblib_cache(stores, p, AllocNone) :
             op.err = NoErr /\ op.mem = MemNone /\ op.stores = stores
    /\ (CachingCall /\ UnusablePath /\ ValidCall)
       => /\ last.r.outcome \in {"returned", "Raised"}
          /\ last.r.execs = 1
          /\ last.r.mem = MemNone
          /\ ~last.r.looked
          /\ stores = last.before

\* C8: opening a store under a directory that does not exist raises
\* ValueError; when the path is the cache_path of a caching call, the call
\* raises it, the function does not run and no store changes.
C8_MissingParent ==
    /\ \A p \in StrVals : \A a \in {c.alloc : c \in CacherArgs} :
          ~PathExists(Parent(p))
          => \A op \in instanciate_joblib_cache(stores, p, a) :
                op.err = "ValueError" /\ op.stores = stores
    /\ (CachingCall /\ PathFlag # None /\ ~PathExists(Parent(PathFlag)))
       => /\ last.r.outcome = "ValueError"
          /\ last.r.execs = 0
          /\ ~last.r.looked
          /\ stores = last.before

C8_Witness ==
    /\ CachingCall /\ PathFlag = "nopar/c"
    /\ last.r.outcome = "ValueError" /\ last.r.execs = 0

\* the store a caching call is to use: path e, or the default store for None
RoutedTo(e) ==
    IF e = None
    THEN /\ last.r.opened = <<>>
         /\ last.r.looked => last.r.mem = global_cache_memory
         /\ \A d \in StoreDirs :
               d # global_cache_memory.location => stores[d] = last.before[d]
    ELSE /\ last.r.opened = <<e>>
         /\ last.r.looked => last.r.mem.location = e
         /\ \A d \in StoreDirs : d # e => stores[d] = last.before[d]

ExplicitPath == DictGet(last.kwargs, "cache_path", None)

\* the routing argument was passed, positionally or by keyword
RuleArgPassed ==
    /\ datapath_arg_name \in Names(last.fn)
    /\ \/ PositionOf(last.fn, datapath_arg_name) <= Len(last.args)
       \/ datapath_arg_name \in DOMAIN last.kwargs

\* the value of the routing argument: as passed, else its declared default
RuleArgValue ==
    make_arg_kwargs_dic(last.fn, last.args, last.kwargs).dic[datapath_arg_name]

RuleArgKnown ==
    datapath_arg_name
        \in DOMAIN make_arg_kwargs_dic(last.fn, last.args, last.kwargs).dic

\* C9 (as amended): a caching call uses the store at its cache_path when one
\* is given; else, through the distributed wrapper, the store at
\* value/local_cache_path when the routing argument, as passed or as its
\* declared default, is a str; else the default store.
C9_RoutingPrecedence ==
    CachingCall
    => RoutedTo(IF ExplicitPath # None THEN ExplicitPath
                ELSE IF /\ last.w = "distributed" /\ RuleArgKnown
                        /\ RuleArgValue \in StrVals
                     THEN PathJoin(RuleArgValue, local_cache_path)
                     ELSE None)

\* C9 as claimed: the routing rule applies only when the argument is passed
\* in the call.
C9_RoutingWhenPassed ==
    CachingCall
    => RoutedTo(IF ExplicitPath # None THEN ExplicitPath
                ELSE IF /\ last.w = "distributed" /\ RuleArgPassed
                        /\ RuleArgValue \in StrVals
                     THEN PathJoin(RuleArgValue, local_cache_path)
                     ELSE None)

\* a routed call that was given a cache_path as well, and stored its result
C9_Witness ==
    /\ CachingCall /\ last.w = "distributed" /\ last.fn = "g"
    /\ RuleArgPassed /\ RuleArgValue = "d1" /\ ExplicitPath = "alt"
    /\ last.r.looked /\ last.r.mem.location = "alt"
    /\ last.r.outcome = "returned" /\ stores["alt"] # {}

\* C10: when the function raises in a caching call, the call raises, the
\* function ran once, and the store holds no item for the key.
C10_FunctionException ==
    (CachingCall /\ last.r.mem.usable /\ last.r.outcome = "Raised")
    => /\ last.r.execs = 1
       /\ ~HasItem(UsedItems, last.fn, last.r.key)

\* the store the call resolves to can be opened and used
UsablePath ==
    IF PathFlag = None THEN global_cache_memory.usable
    ELSE PathExists(Parent(PathFlag)) /\ is_writable(PathFlag, RequiredSpaceMb)

\* C11: a caching call on a usable store that passes a keyword the function
\* does not declare raises the AssertionError of make_arg_kwargs_dic, the
\* function does not run, and no store gains or loses an item.
C11_SignatureMismatch ==
    (/\ Called /\ CachingFlag /\ UsablePath
     /\ WrongKwargs(last.fn, last.kwargs) # {})
    => /\ last.r.outcome = "AssertionError"
       /\ last.r.execs = 0
       /\ stores = last.before

\* func_to_cache(*args, **kwargs): the keyword arguments the wrapped function
\* is called with are those cached_func was called with
Forwarded == last.ckwargs

\* C12: on every path that runs the function (bypass, unusable store, or a
\* run inside a caching call) the function is called with the caller's
\* positional arguments and with the caller's keyword arguments less the
\* control flags it does not declare, and its body runs.
C12_ArgumentForwarding ==
    (/\ Called /\ ValidCall
     /\ (~CachingFlag \/ UnusablePath \/ last.r.execs >= 1))
    => /\ Forwarded = Stripped(last.fn, last.kwargs)
       /\ last.r.execs >= 1
       /\ last.r.outcome \in {"returned", "Raised"}

\* C13: no call runs the function more than once, and a caching call with
\* again=True that returns ran it exactly once, whether or not an item was
\* stored for its key before.
C13_SingleComputation ==
    /\ Called => last.r.execs <= 1
    /\ (/\ CachingCall /\ AgainFlag /\ last.r.looked
        /\ last.r.outcome = "returned")
       => last.r.execs = 1

\* the items the lookup of the call can find: those of the default store, or
\* those opening the store at the call's cache_path leaves
ItemsAtLookup ==
    IF last.r.opened = <<>>
    THEN {last.before[last.r.mem.location]}
    ELSE {op.stores[last.r.opened[1]] :
            op \in instanciate_joblib_cache(last.before, last.r.opened[1], AllocNone)}

\* the binding of the parameters that are not control names
OwnBinding ==
    [n \in Names(last.fn) \ ControlNames |->
        IF n \in DOMAIN last.ckwargs THEN last.ckwargs[n]
        ELSE IF PositionOf(last.fn, n) <= Len(last.args)
        THEN last.args[PositionOf(last.fn, n)]
        ELSE ParamOf(last.fn, n).default]

DeclaresFlags == ControlNames \subseteq Names(last.fn)

\* opening the store the call resolves to deletes no item: the default store
\* is not opened by the call, and reduce_size deletes nothing from a store
\* within its limit
OpenKeepsItems ==
    \/ last.r.opened = <<>>
    \/ SumBytes(last.before[last.r.mem.location])
          <= last.r.mem.caching_memory_allocation

\* C14 (as amended): the key of a caching call holds every parameter that is
\* not a control name and no control name the function declares, however the
\* control parameters are passed.  The call is a hit exactly when the store
\* it resolves to holds, once opened, an item for that key, and then, again
\* being false, returns the item's value without running the function.  So a
\* call that follows one with the same key that returned, differing from it
\* in control parameters alone, is a hit when both resolve to the store at
\* the same location and opening it deleted nothing.
C14_ControlNamesExcluded ==
    (CachingCall /\ last.r.looked)
    => /\ DOMAIN last.r.key = Names(last.fn) \ ControlNames
       /\ last.r.key = OwnBinding
       /\ DeclaresFlags =>
             \E items \in ItemsAtLookup :
                /\ last.r.hit = HasItem(items, last.fn, last.r.key)
                /\ (last.r.hit /\ ~AgainFlag)
                      => /\ last.r.execs = 0
                         /\ last.r.outcome = "returned"
                         /\ last.r.result = ItemOf(items, last.fn, last.r.key).val
       /\ (DeclaresFlags /\ last.prev.sameloc /\ last.prev.outcome = "returned")
             => /\ HasItem(last.before[last.r.mem.location], last.fn, last.r.key)
                /\ (OpenKeepsItems /\ ~AgainFlag)
                      => /\ last.r.hit
                         /\ last.r.execs = 0
                         /\ last.r.outcome = "returned"
                         /\ last.r.result = last.prev.result

\* C14 as claimed: once an item is stored for the key, in whichever store the
\* cache_path of the storing call named, the call is a hit.
C14_SameEntry ==
    C14_ControlNamesExcluded
    /\ (/\ CachingCall /\ last.r.looked /\ DeclaresFlags /\ ~AgainFlag
        /\ OpenKeepsItems
        /\ \E d \in StoreDirs : HasItem(last.before[d], last.fn, OwnBinding))
       => last.r.hit

\* g(x, again, cache_results, cache_path) with all four passed positionally,
\* cache_path being "alt": the wrapper reads cache_path from the keywords
\* alone, so the call uses the default store and is served the item stored by
\* the call before it, which passed the control parameters otherwise
C14_Witness ==
    /\ CachingCall /\ last.fn = "g" /\ Len(last.args) = 4
    /\ last.args[4] = "alt" /\ last.r.opened = <<>>
    /\ last.prev.sameloc /\ ~last.repeat /\ last.prev.outcome = "returned"
    /\ last.r.hit /\ last.r.execs = 0 /\ last.r.outcome = "returned"
    /\ last.r.result = last.prev.result

\* a keyword cache_path that names the directory of the default store: the
\* call is served the item a call without cache_path stored
C14_SameDirectory ==
    /\ CachingCall /\ last.fn = "g" /\ last.r.opened = <<global_cache_memory.location>>
    /\ last.prev.sameloc /\ ~last.prev.related
    /\ last.r.hit /\ last.r.execs = 0 /\ last.r.result = last.prev.result

\* the caller asked for no caching
BypassAsked == Called /\ ~Truthy(DictGet(last.kwargs, "cache_results", PyTrue))

\* C15: a call with cache_results=False, through the Cacher or through the
\* distributed wrapper, opens no store and looks nothing up, and raises
\* neither the ValueError of a missing parent directory nor the
\* AssertionError of make_arg_kwargs_dic.
C15_BypassFirst ==
    BypassAsked
    => /\ last.r.opened = <<>>
       /\ ~last.r.looked
       /\ stores = last.before
       /\ last.r.outcome \notin {"ValueError", "AssertionError"}

\* the parameters the call passes, positionally or by keyword
Supplied ==
    {n \in Names(last.fn) :
        PositionOf(last.fn, n) <= Len(last.args) \/ n \in DOMAIN last.kwargs}

\* the parameters that declare a default
Defaulted == {n \in Names(last.fn) : ParamOf(last.fn, n).hasDefault}

\* C16: the mapping of make_arg_kwargs_dic holds the parameters that were
\* passed or declare a default, and no other parameter, a parameter left out
\* having its default as value; a call that passes by keyword, with their
\* default values, parameters the call before it left out looks up the same
\* key in the same store, and in the default store is served the item that
\* call stored.
C16_DefaultFilling ==
    /\ (Called /\ WrongKwargs(last.fn, last.kwargs) = {})
       => LET m == make_arg_kwargs_dic(last.fn, last.args, last.kwargs)
          IN  /\ m.err = NoErr
              /\ DOMAIN m.dic \cap Names(last.fn) = Supplied \cup Defaulted
              /\ \A n \in Defaulted \ Supplied :
                    m.dic[n] = ParamOf(last.fn, n).default
    /\ (CachingCall /\ last.explicit /\ last.r.looked)
       => /\ last.prev.related
          /\ (last.r.opened = <<>> /\ last.prev.outcome = "returned" /\ ~AgainFlag)
                => /\ last.r.hit
                   /\ last.r.execs = 0
                   /\ last.r.outcome = "returned"
                   /\ last.r.result = last.prev.result

\* f(1) ran and stored; f(1, y=2) is served its item
C16_Witness ==
    /\ CachingCall /\ last.explicit /\ last.fn = "f"
    /\ DOMAIN last.kwargs = {"y"} /\ last.kwargs["y"] = "2"
    /\ last.prev.related /\ last.prev.execs = 1
    /\ last.r.hit /\ last.r.execs = 0 /\ last.r.outcome = "returned"

\* what a call opens: nothing when it asks for no caching or resolves to no
\* path, when it then uses the Memory opened at construction; else the store
\* at the path it resolves to
OpensPerCall ==
    Called
    => IF CachingCall /\ PathFlag # None
       THEN last.r.opened = <<PathFlag>>
       ELSE /\ last.r.opened = <<>>
            /\ last.r.looked => last.r.mem = global_cache_memory

\* C17: the default store is opened once, by the constructor: no call
\* replaces it, a call that resolves to no path opens nothing and uses it,
\* and a caching call that resolves to a path opens the store at that path.
C17_DefaultSingleton ==
    /\ []OpensPerCall
    /\ [][global_cache_memory' = global_cache_memory]_vars

\* after a call that opened the store at a path, a call uses the default
\* store without opening anything
C17_Witness ==
    /\ ncalls = 2 /\ CachingCall /\ PathFlag = None
    /\ last.r.looked /\ last.r.opened = <<>> /\ last.r.mem = global_cache_memory
    /\ \E d \in StoreDirs :
          d # global_cache_memory.location /\ last.before[d] # {}

\* C19: a caching call that resolves to a path looks up, clears and stores
\* items only in the store at that path: the items of every other store are
\* as before the call, a hit returns the value of an item that store held,
\* and when that store holds no item for the key the function runs even if
\* another store holds one.
C19_StoreIsolation ==
    (CachingCall /\ PathFlag # None)
    => /\ \A d \in StoreDirs : d # PathFlag => stores[d] = last.before[d]
       /\ last.r.looked =>
             /\ last.r.mem.location = PathFlag
             /\ last.r.hit => HasItem(last.before[PathFlag], last.fn, last.r.key)
             /\ (last.r.hit /\ ~AgainFlag /\ last.r.outcome = "returned")
                   => last.r.result
                        = ItemOf(last.before[PathFlag], last.fn, last.r.key).val
             /\ (~last.r.hit /\ last.r.outcome = "returned")
                   => /\ last.r.execs >= 1
                      /\ last.r.result = last.r.computed
                      /\ HasItem(stores[PathFlag], last.fn, last.r.key)

\* the default store holds an item for the key; the call, sent to the store
\* at alt, runs the function and stores there
C19_Witness ==
    /\ CachingCall /\ PathFlag = "alt" /\ last.r.looked
    /\ global_cache_memory.usable
    /\ HasItem(last.before[global_cache_memory.location], last.fn, last.r.key)
    /\ ~last.r.hit /\ last.r.execs >= 1 /\ last.r.outcome = "returned"
    /\ HasItem(stores["alt"], last.fn, last.r.key)
    /\ stores[global_cache_memory.location] = last.before[global_cache_memory.location]

\* the byte limit the code gives a store at path p: the one given, else the
\* free space less the reserve
LimitOf(p, alloc) == IF alloc.given THEN alloc.bytes ELSE DiskFree(p) - ReservedBytes

\* the limit of every usable store is the one its opening was given, or the
\* free space less 1,000,000,000 bytes when none was
C20_LimitAsGiven ==
    /\ global_cache_memory.usable
       => \E c \in CacherArgs :
             /\ c.path = global_cache_memory.location
             /\ global_cache_memory.caching_memory_allocation = LimitOf(c.path, c.alloc)
    /\ (Called /\ last.r.opened # <<>> /\ last.r.mem.usable)
       => last.r.mem.caching_memory_allocation = LimitOf(last.r.opened[1], AllocNone)

\* C20: the limit of a usable store is the one given at open, or the free
\* space less 1,000,000,000 bytes when none is given, and is not negative.
C20_ByteLimit ==
    /\ C20_LimitAsGiven
    /\ global_cache_memory.usable
       => global_cache_memory.caching_memory_allocation >= 0
    /\ (Called /\ last.r.mem.usable)
       => last.r.mem.caching_memory_allocation >= 0

\* C18: however the steps of the two callers interleave, each caller ends by
\* returning a value that a run of the function produced, or with the
\* exception the function raised: none ends with a failure of the store.
C18_ConcurrentCallers ==
    \A t \in Threads :
        threads[t].pc = "done"
        => /\ threads[t].outcome \in {"returned", "Raised"}
           /\ threads[t].outcome = "returned" => threads[t].result \in DataValues

====
